---- MODULE Spec2Model ----
(***************************************************************************)
(* IndexArray (sparse value container), the Collection growth primitive    *)
(* it is built on, and the sparse iterator of sigma.collections.           *)
(*                                                                         *)
(* The buffer is modelled byte by byte: `bucket` is the byte region from   *)
(* coll->array.bucket to coll->array.end, a slot is `stride` consecutive   *)
(* bytes, and a slot is empty iff all its bytes are zero.                  *)
(***************************************************************************)
EXTENDS Integers, Sequences, FiniteSets, TLC

(* ---------------------------- bounds ----------------------------------- *)
MaxStride == 2
MaxByte == 1
MaxInitCap == 2
MaxCap == 8
MaxOps == 4
ScenarioOps == 6
MaxIterCap == 3
MaxIterOps == 3
MaxAllOps == 2
MaxViewCap == 3
MaxViewOps == 1
MaxSourceCap == 3
MaxSourceOps == 1
MaxErrorOps == 3
MaxRangeEnd == 4
MaxRangeOps == 1
MaxCollCap == 2
MaxCollOps == 4
MaxDenseOps == 2
MaxAddr == 2
MaxTagOps == 3

(* ------------------------ program constants ---------------------------- *)
OK == 0
ERR == -1
MinGrowCapacity == 8
TestStride == 8
NullPtr == 0

Byte == 0 .. MaxByte
Strides == 1 .. MaxStride

VARIABLES
    bucket,      \* bytes of [coll->array.bucket, coll->array.end)
    stride,      \* coll->stride
    next_slot,   \* ia->next_slot
    last,        \* history: the last mutating call (see Call)
    read,        \* history: the last get_at, is_empty_slot, current_* call made since
    issued,      \* history: handle -> value of the latest add that returned it
    nadds,       \* history: see CountAdds
    scenario,    \* history: see ScenarioStep
    it,          \* the sparse iterator: current, capacity, positioned
    walk,        \* history of the iteration (see NoWalk)
    fuel,        \* bound: number of mutating calls still explored
    owns_buffer, \* coll->owns_buffer
    region,      \* the memory coll->array.bucket points to: Heap or External
    external,    \* the caller's range given to from_buffer (see NoExternal)
    made,        \* history: the constructor call that made the container
    disposed,    \* indexarray_dispose was called
    coll,        \* a Collection used on its own: bucket, stride, length, handle
    dense,       \* the dense iterator: coll, current
    objects,     \* the caller's objects: address -> the stride bytes stored there
    tally,       \* history of the calls made on coll and dense (see NoTally)
    heap         \* history: for each buffer the container allocated, in the
                 \* order of allocation, how often it was passed to
                 \* Allocator.dispose

vars == <<bucket, stride, next_slot, last, read, issued, nadds, scenario,
          it, walk, fuel, owns_buffer, region, external, made, disposed,
          coll, dense, objects, tally, heap>>

(* ------------------------------ memory --------------------------------- *)
NoBytes == <<>>
\* the index of a call that takes none, the count of a run that is not one
NoIndex == ERR

Zeros(n) == [k \in 1 .. n |-> 0]

\* memcpy(dst + off, src, Len(src))
memcpy(dst, off, src) ==
    [k \in 1 .. Len(dst) |->
        IF k > off /\ k <= off + Len(src) THEN src[k - off] ELSE dst[k]]

\* memset(dst + off, 0, n)
memset0(dst, off, n) ==
    [k \in 1 .. Len(dst) |-> IF k > off /\ k <= off + n THEN 0 ELSE dst[k]]

\* the stride bytes at buffer + index * stride
SlotBytes(buf, s, index) == SubSeq(buf, index * s + 1, (index + 1) * s)

is_slot_empty(bytes) == \A i \in 1 .. Len(bytes) : bytes[i] = 0

\* The records a caller passes to add: stride bytes, zero except possibly at
\* the first or the last byte.  The all-zero record is among them.
Records(s) ==
    {[k \in 1 .. s |-> IF k = p THEN b ELSE 0] : p \in {1, s}, b \in Byte}

\* What Allocator.alloc(n) can return: NULL, or n bytes of unspecified
\* content.  The content is drawn from three fill patterns: all bytes zero
\* (memory that happens to be clean), every slot non-zero, every second slot
\* non-zero.
Alloc(n, s) ==
    {[ok |-> FALSE, bytes |-> <<>>]} \cup
    {[ok |-> TRUE,
      bytes |-> [k \in 1 .. n |-> IF ((k - 1) \div s) % m = 0 THEN g ELSE 0]] :
        m \in {1, 2}, g \in {0, MaxByte}}

(* ---------------------------- container -------------------------------- *)
\* the memory a bucket pointer can point to: a region obtained from
\* Allocator.alloc, or the caller's range
Heap == "heap"
External == "external"

IA == [bucket |-> bucket, stride |-> stride, next_slot |-> next_slot,
       owns_buffer |-> owns_buffer, region |-> region]

indexarray_capacity(ia) ==
    IF ia.stride = 0 THEN 0 ELSE Len(ia.bucket) \div ia.stride

Slot(ia, index) == SlotBytes(ia.bucket, ia.stride, index)

\* NULL: no container
NULL == [bucket |-> <<>>, stride |-> 0, next_slot |-> 0,
         owns_buffer |-> FALSE, region |-> "null"]

\* a value pointer that is NULL
NullValue == <<>>

\* indexarray_stride: what collection_get_stride gives, 0 for no container
indexarray_stride(ia) == IF ia = NULL THEN 0 ELSE ia.stride

\* mutation: the buffer is not zero-filled (one byte of it is left set)
indexarray_new_dirty(capacity, s) ==
    IF s = 0 THEN NULL
    ELSE [bucket |-> [k \in 1 .. capacity * s |-> IF k = capacity * s THEN 1 ELSE 0],
          stride |-> s, next_slot |-> 0, owns_buffer |-> TRUE, region |-> Heap]

\* with the allocations succeeding
indexarray_new(capacity, s) ==
    IF s = 0 THEN NULL
    ELSE [bucket |-> Zeros(capacity * s), stride |-> s, next_slot |-> 0,
          owns_buffer |-> TRUE, region |-> Heap]

\* mutation: the capacity is not doubled
NewCapacity_unchanged(ia) == Len(ia.bucket) \div ia.stride

\* collection_grow: the new capacity
NewCapacity(ia) ==
    LET current_capacity == Len(ia.bucket) \div ia.stride
    IN  IF current_capacity = 0 THEN MinGrowCapacity ELSE current_capacity * 2

\* mutation: the result of Allocator.alloc is stored in the bucket before
\* it is tested
collection_grow_unchecked_store(ia, new_buffer) ==
    IF ~new_buffer.ok
    THEN [ret |-> ERR, ia |-> [ia EXCEPT !.bucket = <<>>, !.region = "null"],
          released |-> "none"]
    ELSE [ret |-> OK,
          ia |-> [ia EXCEPT !.bucket =
                     memcpy(new_buffer.bytes, 0,
                            SubSeq(ia.bucket, 1,
                                   ia.stride * (Len(ia.bucket) \div ia.stride))),
                            !.region = Heap],
          released |-> ia.region]

\* mutation: the old elements are not copied into the new buffer
collection_grow_without_copy(ia, new_buffer) ==
    IF ~new_buffer.ok
    THEN [ret |-> ERR, ia |-> ia, released |-> "none"]
    ELSE [ret |-> OK,
          ia |-> [ia EXCEPT !.bucket = new_buffer.bytes, !.region = Heap],
          released |-> ia.region]

\* mutation: the grown buffer is taken to hold records of one byte
collection_grow_byte_stride(ia, new_buffer) ==
    IF ~new_buffer.ok
    THEN [ret |-> ERR, ia |-> ia, released |-> "none"]
    ELSE [ret |-> OK,
          ia |-> [ia EXCEPT !.bucket =
                     memcpy(new_buffer.bytes, 0,
                            SubSeq(ia.bucket, 1,
                                   ia.stride * (Len(ia.bucket) \div ia.stride))),
                            !.region = Heap,
                            !.stride = 1],
          released |-> ia.region]

\* collection_grow with new_buffer the result of Allocator.alloc; released
\* is the region it passes to Allocator.dispose (the old bucket, whatever
\* owns_buffer says), "none" when it disposes nothing
collection_grow(ia, new_buffer) ==
    IF ~new_buffer.ok
    THEN [ret |-> ERR, ia |-> ia, released |-> "none"]
    ELSE [ret |-> OK,
          ia |-> [ia EXCEPT !.bucket =
                     memcpy(new_buffer.bytes, 0,
                            SubSeq(ia.bucket, 1,
                                   ia.stride * (Len(ia.bucket) \div ia.stride))),
                            !.region = Heap],
          released |-> ia.region]

\* mutation: the scan stops at the end of the buffer instead of wrapping
EmptyOffsets_without_wrap(ia) ==
    LET capacity == indexarray_capacity(ia)
    IN  {i \in 0 .. capacity - 1 :
            /\ ia.next_slot + i < capacity
            /\ is_slot_empty(Slot(ia, ia.next_slot + i))}

\* mutation: the slot is not tested for emptiness
EmptyOffsets_untested(ia) == 0 .. indexarray_capacity(ia) - 1

\* indexarray_add, lines 122-133: offsets i < capacity whose slot is empty
EmptyOffsets(ia) ==
    LET capacity == indexarray_capacity(ia)
    IN  {i \in 0 .. capacity - 1 :
            is_slot_empty(Slot(ia, (ia.next_slot + i) % capacity))}

\* mutation: the hint set after a slot was found is not wrapped
indexarray_add_hint_unwrapped(ia, value, new_buffer) ==
    LET capacity == indexarray_capacity(ia)
        found == EmptyOffsets(ia)
    IN  IF ia = NULL \/ value = NullValue
        THEN [ret |-> ERR, ia |-> ia, released |-> "none"]
        ELSE IF found # {}
        THEN LET i == CHOOSE x \in found : \A y \in found : x <= y
                 slot_index == (ia.next_slot + i) % capacity
             IN  [ret |-> slot_index,
                  ia |-> [ia EXCEPT
                            !.bucket = memcpy(ia.bucket, slot_index * ia.stride, value),
                            !.next_slot = slot_index + 1],
                  released |-> "none"]
        ELSE LET g == collection_grow(ia, new_buffer)
             IN  IF g.ret # OK
                 THEN [ret |-> ERR, ia |-> g.ia, released |-> g.released]
                 ELSE LET cap2 == indexarray_capacity(g.ia)
                          half == cap2 \div 2
                          zeroed == memset0(g.ia.bucket, half * ia.stride,
                                            half * ia.stride)
                      IN  [ret |-> half,
                           ia |-> [g.ia EXCEPT
                                     !.bucket = memcpy(zeroed, half * ia.stride, value),
                                     !.next_slot = half + 1],
                           released |-> g.released]

\* mutation: the hint is set to 0 after growth
indexarray_add_hint_reset(ia, value, new_buffer) ==
    LET capacity == indexarray_capacity(ia)
        found == EmptyOffsets(ia)
    IN  IF ia = NULL \/ value = NullValue
        THEN [ret |-> ERR, ia |-> ia, released |-> "none"]
        ELSE IF found # {}
        THEN LET i == CHOOSE x \in found : \A y \in found : x <= y
                 slot_index == (ia.next_slot + i) % capacity
             IN  [ret |-> slot_index,
                  ia |-> [ia EXCEPT
                            !.bucket = memcpy(ia.bucket, slot_index * ia.stride, value),
                            !.next_slot = (slot_index + 1) % capacity],
                  released |-> "none"]
        ELSE LET g == collection_grow(ia, new_buffer)
             IN  IF g.ret # OK
                 THEN [ret |-> ERR, ia |-> g.ia, released |-> g.released]
                 ELSE LET cap2 == indexarray_capacity(g.ia)
                          half == cap2 \div 2
                          zeroed == memset0(g.ia.bucket, half * ia.stride,
                                            half * ia.stride)
                      IN  [ret |-> half,
                           ia |-> [g.ia EXCEPT
                                     !.bucket = memcpy(zeroed, half * ia.stride, value),
                                     !.next_slot = 0],
                           released |-> g.released]

indexarray_add(ia, value, new_buffer) ==
    LET capacity == indexarray_capacity(ia)
        found == EmptyOffsets(ia)
    IN  IF ia = NULL \/ value = NullValue
        THEN [ret |-> ERR, ia |-> ia, released |-> "none"]
        ELSE IF found # {}
        THEN LET i == CHOOSE x \in found : \A y \in found : x <= y
                 slot_index == (ia.next_slot + i) % capacity
             IN  [ret |-> slot_index,
                  ia |-> [ia EXCEPT
                            !.bucket = memcpy(ia.bucket, slot_index * ia.stride, value),
                            !.next_slot = (slot_index + 1) % capacity],
                  released |-> "none"]
        ELSE LET g == collection_grow(ia, new_buffer)
             IN  IF g.ret # OK
                 THEN [ret |-> ERR, ia |-> g.ia, released |-> g.released]
                 ELSE LET cap2 == indexarray_capacity(g.ia)
                          half == cap2 \div 2
                          zeroed == memset0(g.ia.bucket, half * ia.stride,
                                            half * ia.stride)
                      IN  [ret |-> half,
                           ia |-> [g.ia EXCEPT
                                     !.bucket = memcpy(zeroed, half * ia.stride, value),
                                     !.next_slot = half + 1],
                           released |-> g.released]

\* mutation: the slot is copied out before it is tested for emptiness
indexarray_get_at_copy_first(ia, index) ==
    IF index >= indexarray_capacity(ia)
    THEN [ret |-> ERR, out |-> <<>>]
    ELSE [ret |-> IF is_slot_empty(Slot(ia, index)) THEN ERR ELSE OK,
          out |-> Slot(ia, index)]

\* mutation: the bounds check rejects the last index
indexarray_get_at_off_by_one(ia, index) ==
    IF index + 1 >= indexarray_capacity(ia)
    THEN [ret |-> ERR, out |-> <<>>]
    ELSE IF is_slot_empty(Slot(ia, index))
         THEN [ret |-> ERR, out |-> <<>>]
         ELSE [ret |-> OK, out |-> Slot(ia, index)]

indexarray_get_at(ia, index) ==
    IF index >= indexarray_capacity(ia)
    THEN [ret |-> ERR, out |-> <<>>]
    ELSE IF is_slot_empty(Slot(ia, index))
         THEN [ret |-> ERR, out |-> <<>>]
         ELSE [ret |-> OK, out |-> Slot(ia, index)]

\* mutation: removing a slot that is already empty is an error
indexarray_remove_at_occupied_only(ia, index) ==
    IF index >= indexarray_capacity(ia) \/ is_slot_empty(Slot(ia, index))
    THEN [ret |-> ERR, ia |-> ia]
    ELSE [ret |-> OK,
          ia |-> [ia EXCEPT !.bucket = memset0(ia.bucket, index * ia.stride, ia.stride)]]

\* mutation: the hint is moved to the removed slot
indexarray_remove_at_sets_hint(ia, index) ==
    IF index >= indexarray_capacity(ia)
    THEN [ret |-> ERR, ia |-> ia]
    ELSE [ret |-> OK,
          ia |-> [ia EXCEPT !.bucket = memset0(ia.bucket, index * ia.stride, ia.stride),
                            !.next_slot = index]]

\* mutation: one byte of the slot is zeroed instead of stride bytes
indexarray_remove_at_one_byte(ia, index) ==
    IF index >= indexarray_capacity(ia)
    THEN [ret |-> ERR, ia |-> ia]
    ELSE [ret |-> OK,
          ia |-> [ia EXCEPT !.bucket = memset0(ia.bucket, index * ia.stride, 1)]]

indexarray_remove_at(ia, index) ==
    IF index >= indexarray_capacity(ia)
    THEN [ret |-> ERR, ia |-> ia]
    ELSE [ret |-> OK,
          ia |-> [ia EXCEPT !.bucket = memset0(ia.bucket, index * ia.stride, ia.stride)]]

\* mutation: an index out of range is not reported empty
indexarray_is_empty_slot_in_range(ia, index) ==
    IF index >= indexarray_capacity(ia) THEN FALSE
    ELSE is_slot_empty(Slot(ia, index))

indexarray_is_empty_slot(ia, index) ==
    IF index >= indexarray_capacity(ia) THEN TRUE
    ELSE is_slot_empty(Slot(ia, index))

\* mutation: the hint is not reset
indexarray_clear_keeps_hint(ia) ==
    [ia EXCEPT !.bucket = memset0(ia.bucket, 0, indexarray_capacity(ia) * ia.stride)]

indexarray_clear(ia) ==
    [ia EXCEPT !.bucket = memset0(ia.bucket, 0, indexarray_capacity(ia) * ia.stride),
               !.next_slot = 0]

\* The bytes of the addresses buffer .. end - 1 of the caller's memory mem,
\* whose first byte has address 1.
RangeBytes(mem, buffer, end) == SubSeq(mem, buffer, end - 1)

\* mutation: the range is zero-filled, as new zero-fills its buffer
indexarray_from_buffer_zeroed(mem, buffer, end, s, allocated) ==
    IF buffer = NullPtr \/ end = NullPtr \/ s = 0 \/ buffer >= end
    THEN NULL
    ELSE IF ~allocated THEN NULL
    ELSE [bucket |-> Zeros(end - buffer), stride |-> s, next_slot |-> 0,
          owns_buffer |-> FALSE, region |-> External]

\* mutation: a range shorter than one record is refused
indexarray_from_buffer_whole_records(mem, buffer, end, s, allocated) ==
    IF buffer = NullPtr \/ end = NullPtr \/ s = 0 \/ buffer + s > end
    THEN NULL
    ELSE IF ~allocated THEN NULL
    ELSE [bucket |-> RangeBytes(mem, buffer, end), stride |-> s, next_slot |-> 0,
          owns_buffer |-> FALSE, region |-> External]

\* indexarray_from_buffer(buffer, end, stride); mem is the caller's memory
\* the two pointers point into, allocated tells whether both calls of
\* Allocator.alloc returned memory
indexarray_from_buffer(mem, buffer, end, s, allocated) ==
    IF buffer = NullPtr \/ end = NullPtr \/ s = 0 \/ buffer >= end
    THEN NULL
    ELSE IF ~allocated THEN NULL
    ELSE [bucket |-> RangeBytes(mem, buffer, end), stride |-> s, next_slot |-> 0,
          owns_buffer |-> FALSE, region |-> External]

\* FArray.capacity(arr, stride), arr given as the bytes of its buffer
FArray_capacity(arr, s) == Len(arr) \div s

\* FArray.get(arr, i, stride, value)
FArray_get(arr, i, s) ==
    IF i >= FArray_capacity(arr, s)
    THEN [ret |-> ERR, out |-> <<>>]
    ELSE [ret |-> OK, out |-> SlotBytes(arr, s, i)]

\* indexarray_from_farray, lines 211-224: the loop from element i on.  An
\* add that reaches collection_grow is given a zero-filled buffer.
RECURSIVE CopyNonEmpty(_, _, _, _)
CopyNonEmpty(ia, arr, i, cap) ==
    IF i >= cap THEN ia
    ELSE LET g == FArray_get(arr, i, ia.stride)
             grown == [ok |-> TRUE, bytes |-> Zeros(ia.stride * NewCapacity(ia))]
         IN  CopyNonEmpty(IF g.ret = OK /\ ~is_slot_empty(g.out)
                          THEN indexarray_add(ia, g.out, grown).ia
                          ELSE ia,
                          arr, i + 1, cap)

\* mutation: every element of the source is added, the empty ones too
indexarray_from_farray_all(arr, s) ==
    LET cap == FArray_capacity(arr, s)
        ia == indexarray_new(cap, s)
        grown == [ok |-> TRUE, bytes |-> Zeros(s * 2 * cap)]
        copy[i \in 0 .. cap] ==
            IF i = 0 THEN ia
            ELSE indexarray_add(copy[i - 1], SlotBytes(arr, s, i - 1), grown).ia
    IN  IF ia = NULL THEN NULL ELSE copy[cap]

\* indexarray_from_farray(arr, stride) with the allocations succeeding
indexarray_from_farray(arr, s) ==
    LET cap == FArray_capacity(arr, s)
        ia == indexarray_new(cap, s)
    IN  IF ia = NULL THEN NULL ELSE CopyNonEmpty(ia, arr, 0, cap)

\* indexarray_dispose -> collection_dispose: the region passed to
\* Allocator.dispose, "none" when the bucket is not disposed
collection_dispose(ia) ==
    IF ia.owns_buffer /\ ia.region # "null" THEN ia.region ELSE "none"

(* ----------------------------- Collection ------------------------------ *)
\* no collection
NoColl == [bucket |-> <<>>, stride |-> 0, length |-> 0, handle |-> "",
           owns_buffer |-> FALSE, region |-> "null"]

\* an object pointer: the address and the stride bytes stored at it
Ref(addr, bytes) == [addr |-> addr, bytes |-> bytes]

\* an object pointer that is NULL
NullRef == Ref(NullPtr, <<>>)

\* The first s bytes of the pointer variable holding addr, which memcpy
\* reads from &ptr: the low bytes of the address first (little-endian).
PointerBytes(addr, s) == [k \in 1 .. s |-> (addr \div (256 ^ (k - 1))) % 256]

\* collection_new(capacity, stride) with the allocation succeeding:
\* array_alloc_struct_with_bucket is given the tag 'P'; the bucket it
\* returns is taken to be zero-filled (no element is stored in it yet)
collection_new(capacity, s) ==
    [bucket |-> Zeros(capacity * s), stride |-> s, length |-> 0, handle |-> "P",
     owns_buffer |-> TRUE, region |-> Heap]

\* sizeof(void *) of the build (a 64-bit target)
PointerSize == 8

\* no array: the NULL given to collection_create_view
NoArray == [handle |-> "", bucket |-> <<>>]

\* collection_create_view(array, stride, length, owns_buffer) with the
\* allocation of the struct succeeding, for array NULL or an array whose
\* handle is 'F' or 'P': the view takes the bucket and the end of the array
\* and its tag; a view of no array has the tag 'F' and no bucket.
collection_create_view(array, s, length, owns) ==
    IF array = NoArray
    THEN [bucket |-> <<>>, stride |-> s, length |-> length, handle |-> "F",
          owns_buffer |-> owns, region |-> "null"]
    ELSE [bucket |-> array.bucket,
          stride |-> IF array.handle = "P" THEN PointerSize ELSE s,
          length |-> length, handle |-> array.handle,
          owns_buffer |-> owns, region |-> External]

collection_count(c) == c.length

\* mutation: a failed growth is not reported and nothing is stored
collection_add_swallows_failed_growth(c, ptr, new_buffer) ==
    IF c = NoColl \/ ptr = NullRef
    THEN [ret |-> ERR, coll |-> c, released |-> "none"]
    ELSE LET capacity == Len(c.bucket) \div c.stride
             g == IF c.length >= capacity THEN collection_grow(c, new_buffer)
                  ELSE [ret |-> OK, ia |-> c, released |-> "none"]
         IN  IF g.ret # OK
             THEN [ret |-> OK, coll |-> g.ia, released |-> g.released]
             ELSE LET stored == IF c.handle = "F" THEN ptr.bytes
                                ELSE PointerBytes(ptr.addr, c.stride)
                  IN  [ret |-> OK,
                       coll |-> [g.ia EXCEPT
                                   !.bucket = memcpy(@, c.length * c.stride, stored),
                                   !.length = @ + 1],
                       released |-> g.released]

\* collection_add(coll, ptr) with new_buffer the result of Allocator.alloc
\* in collection_grow
collection_add(c, ptr, new_buffer) ==
    IF c = NoColl \/ ptr = NullRef
    THEN [ret |-> ERR, coll |-> c, released |-> "none"]
    ELSE LET capacity == Len(c.bucket) \div c.stride
             g == IF c.length >= capacity THEN collection_grow(c, new_buffer)
                  ELSE [ret |-> OK, ia |-> c, released |-> "none"]
         IN  IF g.ret # OK
             THEN [ret |-> ERR, coll |-> g.ia, released |-> g.released]
             ELSE LET stored == IF c.handle = "F" THEN ptr.bytes
                                ELSE PointerBytes(ptr.addr, c.stride)
                  IN  [ret |-> OK,
                       coll |-> [g.ia EXCEPT
                                   !.bucket = memcpy(@, c.length * c.stride, stored),
                                   !.length = @ + 1],
                       released |-> g.released]

\* the bucket after the elements past index i were moved one slot to the
\* left and the last of the length elements was zeroed
ShiftLeft(c, i) ==
    LET n == c.length
        s == c.stride
    IN  [k \in 1 .. Len(c.bucket) |->
            IF k <= i * s \/ k > n * s THEN c.bucket[k]
            ELSE IF k > (n - 1) * s THEN 0
            ELSE c.bucket[k + s]]

\* mutation: the last matching element is removed
collection_remove_last_match(c, ptr) ==
    LET found == {i \in 0 .. c.length - 1 :
                     SlotBytes(c.bucket, c.stride, i) = ptr.bytes}
    IN  IF c = NoColl \/ ptr = NullRef \/ found = {}
        THEN [ret |-> ERR, coll |-> c]
        ELSE LET i == CHOOSE x \in found : \A y \in found : x >= y
             IN  [ret |-> OK,
                  coll |-> [c EXCEPT !.bucket = ShiftLeft(c, i),
                                     !.length = @ - 1]]

\* collection_remove(coll, ptr): memcmp compares the slot with the bytes
\* at ptr under either tag
collection_remove(c, ptr) ==
    LET found == {i \in 0 .. c.length - 1 :
                     SlotBytes(c.bucket, c.stride, i) = ptr.bytes}
    IN  IF c = NoColl \/ ptr = NullRef \/ found = {}
        THEN [ret |-> ERR, coll |-> c]
        ELSE LET i == CHOOSE x \in found : \A y \in found : x <= y
             IN  [ret |-> OK,
                  coll |-> [c EXCEPT !.bucket = ShiftLeft(c, i),
                                     !.length = @ - 1]]

\* mutation: the length is not set to 0
collection_clear_keeps_length(c) ==
    IF c = NoColl \/ c.region = "null" THEN c
    ELSE [c EXCEPT !.bucket = memset0(@, 0, (Len(@) \div c.stride) * c.stride)]

collection_clear(c) ==
    IF c = NoColl \/ c.region = "null" THEN c
    ELSE [c EXCEPT !.bucket = memset0(@, 0, (Len(@) \div c.stride) * c.stride),
                   !.length = 0]

(* ---------------------------- dense iterator --------------------------- *)
\* no iterator created yet
NoDense == [live |-> FALSE, current |-> 0]

\* iter_current returned NULL
NoElement == [index |-> NoIndex, bytes |-> NoBytes]

collection_create_iterator(c) == [live |-> TRUE, current |-> 0]

\* mutation: the cursor may pass the length by one
iter_next_inclusive(itr, c) ==
    IF ~itr.live \/ itr.current > c.length
    THEN [ret |-> FALSE, it |-> itr]
    ELSE [ret |-> TRUE, it |-> [itr EXCEPT !.current = @ + 1]]

iter_next(itr, c) ==
    IF ~itr.live \/ itr.current >= c.length
    THEN [ret |-> FALSE, it |-> itr]
    ELSE [ret |-> TRUE, it |-> [itr EXCEPT !.current = @ + 1]]

\* iter_current: the slot the returned pointer points at, as its index and
\* its bytes
iter_current(itr, c) ==
    IF ~itr.live \/ itr.current = 0 \/ itr.current > c.length
    THEN NoElement
    ELSE [index |-> itr.current - 1,
          bytes |-> SlotBytes(c.bucket, c.stride, itr.current - 1)]

iter_reset(itr) == [itr EXCEPT !.current = 0]

(* --------------------------- sparse iterator --------------------------- *)
\* no iterator created yet
NoIter == [live |-> FALSE, current |-> 0, capacity |-> 0, positioned |-> FALSE]

sparse_iterator_new(ia) ==
    [live |-> TRUE, current |-> 0, capacity |-> indexarray_capacity(ia),
     positioned |-> FALSE]

\* mutation: the scan starts at the slot the iterator is positioned at
sparse_iter_next_stays(itr, ia) ==
    LET start == itr.current
        found == {i \in start .. itr.capacity - 1 :
                     ~indexarray_is_empty_slot(ia, i)}
    IN  IF found # {}
        THEN [ret |-> TRUE,
              it |-> [itr EXCEPT
                        !.current = CHOOSE x \in found : \A y \in found : x <= y,
                        !.positioned = TRUE]]
        ELSE [ret |-> FALSE,
              it |-> [itr EXCEPT
                        !.current = IF start < itr.capacity THEN itr.capacity
                                    ELSE start,
                        !.positioned = FALSE]]

\* mutation: a scan that finds nothing leaves the cursor at slot 0
sparse_iter_next_wraps(itr, ia) ==
    LET start == IF itr.positioned THEN itr.current + 1 ELSE itr.current
        found == {i \in start .. itr.capacity - 1 :
                     ~indexarray_is_empty_slot(ia, i)}
    IN  IF found # {}
        THEN [ret |-> TRUE,
              it |-> [itr EXCEPT
                        !.current = CHOOSE x \in found : \A y \in found : x <= y,
                        !.positioned = TRUE]]
        ELSE [ret |-> FALSE,
              it |-> [itr EXCEPT !.current = 0, !.positioned = FALSE]]

\* mutation: the scan goes up to the capacity the container has now
sparse_iter_next_live_capacity(itr, ia) ==
    LET start == IF itr.positioned THEN itr.current + 1 ELSE itr.current
        found == {i \in start .. indexarray_capacity(ia) - 1 :
                     ~indexarray_is_empty_slot(ia, i)}
    IN  IF found # {}
        THEN [ret |-> TRUE,
              it |-> [itr EXCEPT
                        !.current = CHOOSE x \in found : \A y \in found : x <= y,
                        !.positioned = TRUE]]
        ELSE [ret |-> FALSE,
              it |-> [itr EXCEPT
                        !.current = IF start < indexarray_capacity(ia)
                                    THEN indexarray_capacity(ia) ELSE start,
                        !.positioned = FALSE]]

\* mutation: empty slots are not skipped
sparse_iter_next_dense(itr, ia) ==
    LET start == IF itr.positioned THEN itr.current + 1 ELSE itr.current
    IN  IF start < itr.capacity
        THEN [ret |-> TRUE, it |-> [itr EXCEPT !.current = start, !.positioned = TRUE]]
        ELSE [ret |-> FALSE, it |-> [itr EXCEPT !.current = start, !.positioned = FALSE]]

sparse_iter_next(itr, ia) ==
    LET start == IF itr.positioned THEN itr.current + 1 ELSE itr.current
        found == {i \in start .. itr.capacity - 1 :
                     ~indexarray_is_empty_slot(ia, i)}
    IN  IF found # {}
        THEN [ret |-> TRUE,
              it |-> [itr EXCEPT
                        !.current = CHOOSE x \in found : \A y \in found : x <= y,
                        !.positioned = TRUE]]
        ELSE [ret |-> FALSE,
              it |-> [itr EXCEPT
                        !.current = IF start < itr.capacity THEN itr.capacity
                                    ELSE start,
                        !.positioned = FALSE]]

sparse_iter_current_index(itr) == itr.current

\* mutation: the positioned flag is not tested
sparse_iter_current_value_unguarded(itr, ia) == indexarray_get_at(ia, itr.current)

sparse_iter_current_value(itr, ia) ==
    IF ~itr.positioned
    THEN [ret |-> ERR, out |-> <<>>]
    ELSE indexarray_get_at(ia, itr.current)

\* mutation: positioned is not cleared
sparse_iter_reset_keeps_positioned(itr) == [itr EXCEPT !.current = 0]

sparse_iter_reset(itr) == [itr EXCEPT !.current = 0, !.positioned = FALSE]

(* ------------------------------ state ---------------------------------- *)
NoCall == [op |-> "none", index |-> NoIndex, ret |-> OK, out |-> NoBytes]

\* every slot occupied (capacity 0 included)
Full(ia) == EmptyOffsets(ia) = {}

Occupied(ia, index) == ~indexarray_is_empty_slot(ia, index)

NoSummary ==
    [op |-> "none", index |-> NoIndex, occupied0 |-> FALSE, full0 |-> FALSE]

\* What a call record keeps of the mutating call made before it: a
\* remove_at that returned OK, with its index and the facts of its state.
Summary(call) ==
    IF call.op = "remove_at" /\ call.ret = OK
    THEN [op |-> call.op, index |-> call.index,
          occupied0 |-> call.occupied0, full0 |-> call.full0]
    ELSE NoSummary

\* The record of a mutating call made in state ia: its arguments, its
\* result, the outcome of the allocation it made, and facts of the state
\* it was made in.
Call(op, index, value, ret, alloc, ia, prev) ==
    [op |-> op, index |-> index, value |-> value, ret |-> ret, alloc |-> alloc,
     capacity0 |-> indexarray_capacity(ia), full0 |-> Full(ia),
     next_slot0 |-> ia.next_slot,
     occupied0 |-> (index # NoIndex /\ Occupied(ia, index)),
     prev |-> prev]

\* history: the number of calls made so far when all of them were adds of
\* non-zero records that returned a handle; NoIndex after any other call.
\* An add that returned ERR changed nothing and is not counted.
CountAdds(n, call) ==
    IF call.op = "add" /\ call.ret = ERR THEN n
    ELSE IF n # NoIndex /\ call.op = "add" /\ ~is_slot_empty(call.value)
         THEN n + 1
         ELSE NoIndex

\* history: how many steps of the growth-and-reuse scenario the calls made
\* so far are: four adds of non-zero records, remove_at(1), one more add.
ScenarioStep(n, call) ==
    LET added == call.op = "add" /\ ~is_slot_empty(call.value) /\ call.ret # ERR
    IN  IF n = NoIndex THEN NoIndex
        ELSE IF n < 4 /\ added THEN n + 1
        ELSE IF n = 4 /\ call.op = "remove_at" /\ call.index = 1 THEN 5
        ELSE IF n = 5 /\ added THEN 6
        ELSE NoIndex

\* history of the iteration: the (index, status, value) triples that
\* current_index and current_value gave after each next that returned true,
\* since the iterator was created or last reset; clean: no mutating call was
\* made since the iterator was created (pairs are kept only while clean);
\* fresh: not reset since created; done: the last next since returned false;
\* started: next was called since the iterator was created or last reset;
\* snapshot: the capacity the container had when the iterator was created;
\* late: "mutated" once a mutating call was made after a next that returned
\* false, "retried" once next was called after that, "no" before and after
\* a reset; hits: the nexts that returned true since the iterator was
\* created or last reset; lastidx: current_index after the last of them.
NoWalk == [pairs |-> <<>>, clean |-> TRUE, fresh |-> TRUE, done |-> FALSE,
           started |-> FALSE, snapshot |-> 0, late |-> "no",
           hits |-> 0, lastidx |-> NoIndex]

Reported(itr, ia) ==
    LET v == sparse_iter_current_value(itr, ia)
    IN  <<sparse_iter_current_index(itr), v.ret, v.out>>

SetIA(ia) ==
    /\ bucket' = ia.bucket
    /\ stride' = ia.stride
    /\ next_slot' = ia.next_slot
    /\ owns_buffer' = ia.owns_buffer
    /\ region' = ia.region

\* The caller's range given to from_buffer.  state: "none" (there is none),
\* "view" (the bucket points at it: its bytes are the bytes of bucket), or
\* "released" (it was passed to Allocator.dispose; bytes: its content then).
NoExternal == [state |-> "none", bytes |-> <<>>]

\* the caller's range while the bucket points at it (its bytes are bucket)
Viewed == [state |-> "view", bytes |-> <<>>]

\* Allocator.dispose(released) as the caller's range sees it; bytes: the
\* content of the old bucket
Allocator_dispose(ext, released, bytes) ==
    IF released = External /\ ext.state = "view"
    THEN [state |-> "released", bytes |-> bytes]
    ELSE ext

\* The buffers of the container after a call that passed region released to
\* Allocator.dispose ("none": nothing) and, when grew, made a buffer by
\* Allocator.alloc.  A bucket in region Heap is the buffer allocated last.
Allocator_ledger(h, released, grew) ==
    LET after == IF released = Heap /\ h # <<>>
                 THEN [h EXCEPT ![Len(h)] = @ + 1] ELSE h
    IN  IF grew THEN Append(after, 0) ELSE after

\* the constructor call: its name, the capacity and stride it was given or
\* computed, and the bytes of the range or of the source it was given
Made(op, capacity, s, bytes) ==
    [op |-> op, capacity |-> capacity, stride |-> s, bytes |-> bytes,
     buffer |-> NullPtr, end |-> NullPtr]

\* the call from_buffer(buffer, end, s) on the caller's memory mem
MadeOver(mem, buffer, end, s) ==
    [op |-> "from_buffer", capacity |-> 0, stride |-> s, bytes |-> mem,
     buffer |-> buffer, end |-> end]

\* History of the calls on coll and dense.  op, ret: the last call on coll
\* and what it returned; adds, removes: the adds and removes that returned
\* OK since collection_new or the last clear; fuel: bound, the calls on coll
\* still explored; seen: what iter_current gave after each next that
\* returned true since the iterator was created or last reset (kept while
\* clean); clean: no call on coll was made since the iterator was created;
\* started: next was called since the iterator was created or last reset;
\* done: the last next since returned false; prior: seen and done as they
\* were at the last reset; resets: the resets made; current: what the last
\* iter_current call gave; initial: the capacity given to collection_new;
\* capacity0, length0: the capacity and the length before the last call;
\* arg: the pointer given to the last add or remove.
NoTally == [op |-> "none", ret |-> OK, adds |-> 0, removes |-> 0, fuel |-> 0,
            initial |-> 0, capacity0 |-> 0, length0 |-> 0, arg |-> NullRef,
            seen |-> <<>>, clean |-> TRUE, started |-> FALSE, done |-> FALSE,
            resets |-> 0, prior |-> [seen |-> <<>>, done |-> FALSE],
            current |-> NoElement]

\* no Collection is used on its own
NoCollection ==
    /\ coll = NoColl
    /\ dense = NoDense
    /\ objects = <<>>
    /\ tally = NoTally

\* what a call on the sparse container or its iterator leaves alone
CollFrame == UNCHANGED <<coll, dense, objects, tally>>

\* the bookkeeping of a mutating call
Record(call) ==
    /\ last' = call
    /\ read' = NoCall
    /\ nadds' = CountAdds(nadds, call)
    /\ scenario' = ScenarioStep(scenario, call)
    /\ it' = it
    /\ walk' = IF it.live
                THEN [walk EXCEPT !.clean = FALSE, !.pairs = <<>>,
                                  !.late = IF walk.done /\ @ = "no"
                                           THEN "mutated" ELSE @]
                ELSE walk
    /\ fuel' = fuel - 1
    /\ UNCHANGED <<made, disposed>>
    /\ CollFrame

\* the sparse container's part of the state in which constructor call op
\* has returned ia
ConstructedArray(ia, op, ext, call, ops) ==
    /\ bucket = ia.bucket
    /\ stride = ia.stride
    /\ next_slot = ia.next_slot
    /\ owns_buffer = ia.owns_buffer
    /\ region = ia.region
    /\ last = Call(op, NoIndex, NoBytes, OK, "none", ia, NoSummary)
    /\ external = ext
    /\ made = call
    /\ disposed = FALSE
    /\ read = NoCall
    /\ issued = <<>>
    /\ nadds = 0
    /\ scenario = 0
    /\ it = NoIter
    /\ walk = NoWalk
    /\ fuel = ops
    /\ heap = IF ia.region = Heap THEN <<0>> ELSE <<>>

\* the state in which constructor call op has returned ia
Constructed(ia, op, ext, call, ops) ==
    /\ ConstructedArray(ia, op, ext, call, ops)
    /\ NoCollection

InitWith(capacities, strides, ops) ==
    \E capacity \in capacities, s \in strides :
        Constructed(indexarray_new(capacity, s), "new", NoExternal,
                    Made("new", capacity, s, NoBytes), ops)

Init == InitWith(0 .. MaxInitCap, Strides, MaxOps)

\* Allocator.alloc is called only when add reaches collection_grow.
GrowthAllocs(ia) ==
    IF Full(ia)
    THEN Alloc(ia.stride * NewCapacity(ia), ia.stride)
    ELSE {[ok |-> FALSE, bytes |-> <<>>]}

\* Growth beyond MaxCap slots is outside the bounds of the model.
Add ==
    /\ fuel > 0
    /\ ~disposed
    /\ Full(IA) => NewCapacity(IA) <= MaxCap
    /\ \E value \in Records(stride) :
       \E new_buffer \in GrowthAllocs(IA) :
          LET r == indexarray_add(IA, value, new_buffer)
              alloc == IF ~Full(IA) THEN "none"
                       ELSE IF new_buffer.ok THEN "ok" ELSE "null"
          IN  /\ SetIA(r.ia)
              /\ external' = Allocator_dispose(external, r.released, bucket)
              /\ heap' = Allocator_ledger(heap, r.released,
                                          alloc = "ok" /\ r.ret # ERR)
              /\ Record(Call("add", NoIndex, value, r.ret, alloc, IA, Summary(last)))
              /\ issued' = IF r.ret = ERR THEN issued
                           ELSE [h \in DOMAIN issued \cup {r.ret} |->
                                    IF h = r.ret THEN value ELSE issued[h]]

\* index = capacity stands for every index that is out of range
RemoveAt ==
    /\ fuel > 0
    /\ ~disposed
    /\ \E index \in 0 .. indexarray_capacity(IA) :
          LET r == indexarray_remove_at(IA, index)
          IN  /\ SetIA(r.ia)
              /\ external' = external
              /\ heap' = heap
              /\ Record(Call("remove_at", index, NoBytes, r.ret, "none", IA,
                             Summary(last)))
              /\ issued' = IF r.ret = OK
                           THEN [h \in DOMAIN issued \ {index} |-> issued[h]]
                           ELSE issued

Clear ==
    /\ fuel > 0
    /\ ~disposed
    /\ SetIA(indexarray_clear(IA))
    /\ external' = external
    /\ heap' = heap
    /\ Record(Call("clear", NoIndex, NoBytes, OK, "none", IA, Summary(last)))
    /\ issued' = <<>>

\* add called with a value pointer that is NULL
AddAbsent ==
    /\ fuel > 0
    /\ ~disposed
    /\ LET r == indexarray_add(IA, NullValue, [ok |-> FALSE, bytes |-> <<>>])
       IN  /\ SetIA(r.ia)
           /\ external' = Allocator_dispose(external, r.released, bucket)
           /\ heap' = Allocator_ledger(heap, r.released, FALSE)
           /\ Record(Call("add", NoIndex, NullValue, r.ret, "none", IA, Summary(last)))
           /\ issued' = issued

\* what a non-mutating call on the container leaves alone
Frame ==
    /\ UNCHANGED <<bucket, stride, next_slot, last, issued, nadds, scenario,
                   it, walk, fuel, owns_buffer, region, external, made, disposed,
                   heap>>
    /\ CollFrame

\* what a call on the iterator leaves alone
IterFrame ==
    /\ UNCHANGED <<bucket, stride, next_slot, last, issued, nadds, scenario, fuel,
                   owns_buffer, region, external, made, disposed, heap>>
    /\ CollFrame

GetAt ==
    /\ ~disposed
    /\ \E index \in 0 .. indexarray_capacity(IA) :
          LET r == indexarray_get_at(IA, index)
          IN  read' = [op |-> "get_at", index |-> index, ret |-> r.ret, out |-> r.out]
    /\ Frame

IsEmptySlot ==
    /\ ~disposed
    /\ \E index \in 0 .. indexarray_capacity(IA) :
          read' = [op |-> "is_empty_slot", index |-> index,
                   ret |-> IF indexarray_is_empty_slot(IA, index) THEN 1 ELSE 0,
                   out |-> NoBytes]
    /\ Frame

CreateIterator ==
    /\ ~it.live
    /\ ~disposed
    /\ it' = sparse_iterator_new(IA)
    /\ walk' = [NoWalk EXCEPT !.snapshot = indexarray_capacity(IA)]
    /\ read' = NoCall
    /\ IterFrame

IterNext ==
    /\ it.live
    /\ ~disposed
    /\ LET r == sparse_iter_next(it, IA)
       IN  /\ it' = r.it
           /\ walk' = [walk EXCEPT
                         !.pairs = IF walk.clean /\ r.ret
                                   THEN Append(@, Reported(r.it, IA)) ELSE @,
                         !.done = ~r.ret,
                         !.started = TRUE,
                         !.late = IF @ = "mutated" THEN "retried" ELSE @,
                         !.hits = IF r.ret THEN @ + 1 ELSE @,
                         !.lastidx = IF r.ret THEN sparse_iter_current_index(r.it)
                                     ELSE @]
           /\ read' = NoCall
    /\ IterFrame

IterCurrentIndex ==
    /\ it.live
    /\ ~disposed
    /\ read' = [op |-> "current_index", index |-> NoIndex,
                ret |-> sparse_iter_current_index(it), out |-> NoBytes]
    /\ UNCHANGED <<it, walk>>
    /\ IterFrame

IterCurrentValue ==
    /\ it.live
    /\ ~disposed
    /\ LET r == sparse_iter_current_value(it, IA)
       IN  read' = [op |-> "current_value", index |-> NoIndex, ret |-> r.ret,
                    out |-> r.out]
    /\ UNCHANGED <<it, walk>>
    /\ IterFrame

IterReset ==
    /\ it.live
    /\ ~disposed
    /\ it' = sparse_iter_reset(it)
    /\ walk' = [pairs |-> <<>>, clean |-> walk.clean, fresh |-> FALSE,
                done |-> FALSE, started |-> FALSE, snapshot |-> walk.snapshot,
                late |-> "no", hits |-> 0, lastidx |-> NoIndex]
    /\ read' = NoCall
    /\ IterFrame

Next == Add \/ RemoveAt \/ Clear

Spec == Init /\ [][Next]_vars

\* the mutating calls, add with an absent value among them
ErrorInit == InitWith(0 .. MaxInitCap, Strides, MaxErrorOps)

ErrorNext == Next \/ AddAbsent

ErrorSpec == ErrorInit /\ [][ErrorNext]_vars

\* The iterator over containers of capacity 1 .. MaxIterCap and of the
\* greatest stride (Spec covers capacity 0 and every stride).
IterInit == InitWith(1 .. MaxIterCap, {MaxStride}, MaxIterOps)

IterNextStep == Next \/ CreateIterator \/ IterNext \/ IterReset

IterSpec == IterInit /\ [][IterNextStep]_vars

CursorNext == IterNextStep \/ IterCurrentIndex \/ IterCurrentValue

CursorSpec == IterInit /\ [][CursorNext]_vars

AllNext == CursorNext \/ GetAt \/ IsEmptySlot

\* Every call of the container and of the iterator, on a shorter run and
\* with the greatest stride.
AllInit == InitWith(1 .. MaxInitCap, {MaxStride}, MaxAllOps)

AllSpec == AllInit /\ [][AllNext]_vars

Dispose ==
    /\ ~disposed
    /\ disposed' = TRUE
    /\ external' = Allocator_dispose(external, collection_dispose(IA), bucket)
    /\ heap' = Allocator_ledger(heap, collection_dispose(IA), FALSE)
    /\ read' = NoCall
    /\ UNCHANGED <<bucket, stride, next_slot, last, issued, nadds, scenario,
                   it, walk, fuel, owns_buffer, region, made>>
    /\ CollFrame

\* Caller memory of n records of s bytes followed by r more bytes: the
\* records at the indices in occ have one non-zero byte, the others are
\* all-zero; the r last bytes are g.
Pattern(s, n, occ, r, g) ==
    [k \in 1 .. n * s + r |->
        IF k > n * s THEN g
        ELSE LET i == (k - 1) \div s
                 j == ((k - 1) % s) + 1
             IN  IF i \in occ /\ j = 1 + (i % s) THEN 1 + (i % MaxByte) ELSE 0]

\* the ranges a caller gives to from_buffer: up to maxcap records and a
\* last part shorter than a record, one byte at least
CallerRanges(s, maxcap) ==
    {m \in {Pattern(s, n, occ, r, g) :
               n \in 0 .. maxcap, occ \in SUBSET (0 .. maxcap - 1),
               r \in 0 .. s - 1, g \in {0, MaxByte}} : Len(m) >= 1}

\* the buffers of the dense sources given to from_farray
DenseSources(s, maxcap) ==
    {Pattern(s, n, occ, 0, 0) : n \in 0 .. maxcap, occ \in SUBSET (0 .. maxcap - 1)}

\* a non-owning view over the whole of the caller's memory mem
ViewInit ==
    \E s \in Strides : \E mem \in CallerRanges(s, MaxViewCap) :
        Constructed(indexarray_from_buffer(mem, 1, 1 + Len(mem), s, TRUE), "from_buffer",
                    Viewed, Made("from_buffer", Len(mem) \div s, s, mem), MaxViewOps)

ViewNext == Next \/ Dispose \/ CreateIterator \/ IterNext

ViewSpec == ViewInit /\ [][ViewNext]_vars

\* The arguments of a call of from_buffer: two pointers, each NULL or an
\* address 1 .. MaxRangeEnd of the caller's memory (MaxRangeEnd is one past
\* its last byte), and a stride 0 .. MaxStride.
RangeInit ==
    \E buffer \in 0 .. MaxRangeEnd, end \in 0 .. MaxRangeEnd, s \in 0 .. MaxStride :
        \E occ \in SUBSET (0 .. MaxRangeEnd - 2) :
            Constructed(NULL, "none", NoExternal,
                        MadeOver(Pattern(1, MaxRangeEnd - 1, occ, 0, 0),
                                 buffer, end, s),
                        MaxRangeOps)

\* the call of from_buffer on the arguments drawn
FromBuffer ==
    /\ last.op = "none"
    /\ made.op = "from_buffer"
    /\ \E allocated \in BOOLEAN :
          LET ia == indexarray_from_buffer(made.bytes, made.buffer, made.end,
                                           made.stride, allocated)
          IN  /\ SetIA(ia)
              /\ external' = IF ia = NULL THEN NoExternal ELSE Viewed
              /\ last' = Call("from_buffer", NoIndex, NoBytes,
                              IF ia = NULL THEN ERR ELSE OK,
                              IF allocated THEN "ok" ELSE "null", ia, NoSummary)
    /\ UNCHANGED <<read, issued, nadds, scenario, it, walk, fuel, made, disposed,
                   heap>>
    /\ CollFrame

\* the calls made on the view from_buffer returned
RangeCalls == last.op # "none" /\ IA # NULL /\ Next

RangeNext == FromBuffer \/ RangeCalls

RangeSpec == RangeInit /\ [][RangeNext]_vars

\* a container made from a dense source
SourceInit ==
    \E s \in Strides : \E arr \in DenseSources(s, MaxSourceCap) :
        Constructed(indexarray_from_farray(arr, s), "from_farray", NoExternal,
                    Made("from_farray", FArray_capacity(arr, s), s, arr),
                    MaxSourceOps)

SourceNext == Next \/ CreateIterator \/ IterNext

SourceSpec == SourceInit /\ [][SourceNext]_vars

\* what a call on the Collection or its iterator leaves alone
ArrayFrame ==
    UNCHANGED <<bucket, stride, next_slot, last, read, issued, nadds, scenario,
                it, walk, fuel, owns_buffer, region, external, made, disposed,
                heap>>

\* The caller's objects at the addresses 1 .. MaxAddr, s bytes each: all of
\* them zero, each holding its own address, or each holding the address of
\* the next one.
Objects(s) ==
    {[addr \in 1 .. MaxAddr |-> Zeros(s)],
     [addr \in 1 .. MaxAddr |-> PointerBytes(addr, s)],
     [addr \in 1 .. MaxAddr |-> PointerBytes((addr % MaxAddr) + 1, s)]}

\* the object pointers a caller passes
Refs == {Ref(addr, objects[addr]) : addr \in DOMAIN objects}

\* Allocator.alloc is called only when collection_add reaches collection_grow.
CollAllocs(c) ==
    IF c.length >= Len(c.bucket) \div c.stride
    THEN Alloc(c.stride * NewCapacity(c), c.stride)
    ELSE {[ok |-> FALSE, bytes |-> <<>>]}

\* the bookkeeping of a call on coll that returned ret
Tallied(op, ret) ==
    [tally EXCEPT
        !.op = op, !.ret = ret,
        !.adds = IF op = "clear" THEN 0
                 ELSE IF op = "add" /\ ret = OK THEN @ + 1 ELSE @,
        !.removes = IF op = "clear" THEN 0
                    ELSE IF op = "remove" /\ ret = OK THEN @ + 1 ELSE @,
        !.fuel = @ - 1,
        !.capacity0 = Len(coll.bucket) \div coll.stride,
        !.length0 = coll.length,
        !.arg = NullRef,
        !.clean = IF dense.live THEN FALSE ELSE @,
        !.seen = IF dense.live THEN <<>> ELSE @,
        !.current = NoElement]

\* a Collection made by collection_new, and the caller's objects
CollInitWith(ops) ==
    /\ ConstructedArray(NULL, "none", NoExternal, Made("none", 0, 0, NoBytes), 0)
    /\ \E capacity \in 0 .. MaxCollCap, s \in Strides :
          /\ coll = collection_new(capacity, s)
          /\ objects \in Objects(s)
    /\ dense = NoDense
    /\ tally = [NoTally EXCEPT !.op = "new", !.fuel = ops,
                               !.initial = Len(coll.bucket) \div coll.stride,
                               !.capacity0 = Len(coll.bucket) \div coll.stride]

CollInit == CollInitWith(MaxCollOps)

\* Growth beyond MaxCap slots is outside the bounds of the model.
CollAdd ==
    /\ tally.fuel > 0
    /\ coll.length >= Len(coll.bucket) \div coll.stride => NewCapacity(coll) <= MaxCap
    /\ \E ptr \in Refs \cup {NullRef} :
       \E new_buffer \in CollAllocs(coll) :
          LET r == collection_add(coll, ptr, new_buffer)
          IN  /\ coll' = r.coll
              /\ tally' = [Tallied("add", r.ret) EXCEPT !.arg = ptr]
    /\ UNCHANGED <<dense, objects>>
    /\ ArrayFrame

CollRemove ==
    /\ tally.fuel > 0
    /\ \E ptr \in Refs \cup {NullRef} :
          LET r == collection_remove(coll, ptr)
          IN  /\ coll' = r.coll
              /\ tally' = [Tallied("remove", r.ret) EXCEPT !.arg = ptr]
    /\ UNCHANGED <<dense, objects>>
    /\ ArrayFrame

CollClear ==
    /\ tally.fuel > 0
    /\ coll' = collection_clear(coll)
    /\ tally' = Tallied("clear", OK)
    /\ UNCHANGED <<dense, objects>>
    /\ ArrayFrame

CollCreateIterator ==
    /\ ~dense.live
    /\ dense' = collection_create_iterator(coll)
    /\ tally' = [tally EXCEPT !.seen = <<>>, !.clean = TRUE, !.started = FALSE,
                              !.done = FALSE, !.resets = 0,
                              !.prior = NoTally.prior, !.current = NoElement]
    /\ UNCHANGED <<coll, objects>>
    /\ ArrayFrame

DenseNext ==
    /\ dense.live
    /\ LET r == iter_next(dense, coll)
       IN  /\ dense' = r.it
           /\ tally' = [tally EXCEPT
                          !.seen = IF tally.clean /\ r.ret
                                   THEN Append(@, iter_current(r.it, coll)) ELSE @,
                          !.started = TRUE,
                          !.done = ~r.ret,
                          !.current = NoElement]
    /\ UNCHANGED <<coll, objects>>
    /\ ArrayFrame

DenseCurrent ==
    /\ dense.live
    /\ tally' = [tally EXCEPT !.current = iter_current(dense, coll)]
    /\ UNCHANGED <<coll, dense, objects>>
    /\ ArrayFrame

\* at most one reset is explored
DenseReset ==
    /\ dense.live
    /\ tally.resets = 0
    /\ dense' = iter_reset(dense)
    /\ tally' = [tally EXCEPT !.prior = [seen |-> tally.seen, done |-> tally.done],
                              !.seen = <<>>, !.started = FALSE, !.done = FALSE,
                              !.resets = 1, !.current = NoElement]
    /\ UNCHANGED <<coll, objects>>
    /\ ArrayFrame

CollNext == CollAdd \/ CollRemove \/ CollClear

CollSpec == CollInit /\ [][CollNext]_vars

\* the arrays given to collection_create_view: none, or an array of tag 'F'
\* with a zero-filled bucket of up to maxcap slots of s bytes
ViewedArrays(s, maxcap) ==
    {NoArray} \cup {[handle |-> "F", bucket |-> Zeros(n * s)] : n \in 0 .. maxcap}

\* an empty Collection of either tag: made by collection_new (tag 'P') or
\* by collection_create_view with length 0 (tag 'F'), and the caller's
\* objects
TagInit ==
    /\ ConstructedArray(NULL, "none", NoExternal, Made("none", 0, 0, NoBytes), 0)
    /\ \E s \in Strides :
          /\ \/ \E capacity \in 0 .. MaxCollCap : coll = collection_new(capacity, s)
             \/ \E array \in ViewedArrays(s, MaxCollCap), owns \in BOOLEAN :
                   coll = collection_create_view(array, s, 0, owns)
          /\ objects \in Objects(s)
    /\ dense = NoDense
    /\ tally = [NoTally EXCEPT !.op = "new", !.fuel = MaxTagOps,
                               !.initial = Len(coll.bucket) \div coll.stride,
                               !.capacity0 = Len(coll.bucket) \div coll.stride]

TagSpec == TagInit /\ [][CollNext]_vars

\* the Collection with its dense iterator
DenseInit == CollInitWith(MaxDenseOps)

DenseNextStep ==
    CollNext \/ CollCreateIterator \/ DenseNext \/ DenseCurrent \/ DenseReset

DenseSpec == DenseInit /\ [][DenseNextStep]_vars

\* test_indexarray_growth / test_indexarray_slot_reuse: IndexArray.new(3, sizeof(test_data))
ScenarioInit == InitWith({3}, {TestStride}, ScenarioOps)

ScenarioSpec == ScenarioInit /\ [][Next]_vars

(* ------------------------------ claims --------------------------------- *)
GetOK(h, v) == indexarray_get_at(IA, h) = [ret |-> OK, out |-> v]

Added == last.op = "add" /\ last.ret # ERR

Grew == Added /\ last.full0

\* C1 (as stated): every handle h returned by add(v) and not removed or
\* cleared since is retrievable: get_at(h) returns OK with the bytes of v.
C1_AnyRecordStaysRetrievable ==
    \A h \in DOMAIN issued : GetOK(h, issued[h])

\* C1 (amended): every handle h returned by add(v) for a record v that is
\* not all-zero, and not removed or cleared since, is retrievable: get_at(h)
\* returns OK with the bytes of v, whatever adds, removals of other handles
\* and growths came in between.
C1_HandleStability ==
    \A h \in DOMAIN issued :
        ~is_slot_empty(issued[h]) => GetOK(h, issued[h])

\* C1 witness: a handle issued before a growth, still held after the growth
\* and after a later call.
C1_Witness ==
    /\ last.op \in {"add", "remove_at"}
    /\ \E h \in DOMAIN issued :
          /\ ~is_slot_empty(issued[h])
          /\ h < indexarray_capacity(IA) \div 2
          /\ indexarray_capacity(IA) > last.capacity0
          /\ h # last.ret
    /\ \E h \in DOMAIN issued : h >= last.capacity0

\* C2 (as stated): add of a record that is not all-zero returns a handle
\* h >= 0, and get_at(h) made right after returns OK with the record's bytes.
C2_AddAlwaysReturnsHandle ==
    (last.op = "add" /\ ~is_slot_empty(last.value)) =>
        (last.ret >= 0 /\ GetOK(last.ret, last.value))

\* C2 (amended): add of a record that is not all-zero returns a handle
\* h >= 0 unless every slot is occupied and the allocation of the grown
\* buffer fails, in which case it returns -1; when it returns h >= 0,
\* get_at(h) made right after returns OK with the record's bytes.
C2_RoundTrip ==
    (last.op = "add" /\ ~is_slot_empty(last.value)) =>
        IF last.full0 /\ last.alloc = "null"
        THEN last.ret = ERR
        ELSE last.ret >= 0 /\ GetOK(last.ret, last.value)

\* C2 witness: an add of a record whose first byte is zero has grown the
\* buffer and returned a handle.
C2_Witness ==
    /\ Grew /\ ~is_slot_empty(last.value)
    /\ last.capacity0 > 0
    /\ Len(last.value) > 1 /\ last.value[1] = 0

\* C3 (as stated): when remove_at(h) was applied to an occupied slot h and
\* the next mutating call is an add, that add returns h.
C3_RemovedSlotIsReused ==
    (Added /\ last.prev.op = "remove_at" /\ last.prev.occupied0) =>
        last.ret = last.prev.index

\* C3 (amended): when remove_at(h) was applied to an occupied slot h of a
\* container in which every slot was occupied, and the next mutating call is
\* an add, that add returns h.
C3_OnlyEmptySlotIsReused ==
    (Added /\ last.prev.op = "remove_at" /\ last.prev.occupied0
           /\ last.prev.full0) =>
        last.ret = last.prev.index

\* C3 witness: such an add, made with the hint past the removed slot.
C3_Witness ==
    /\ Added /\ last.prev.op = "remove_at" /\ last.prev.occupied0
    /\ last.prev.full0
    /\ last.next_slot0 > last.prev.index
    /\ last.capacity0 > 1

\* C4 (as stated): from new(3, 8), three adds return 0, 1, 2 with capacity
\* 3, a fourth add grows the capacity to 6 and returns 3, remove_at(1)
\* leaves slot 1 empty, and the next add returns 1 with capacity still 6.
C4_ScenarioReusesSlot1 ==
    /\ (scenario \in 1 .. 3) =>
          (last.ret = scenario - 1 /\ indexarray_capacity(IA) = 3)
    /\ (scenario = 4) => (last.ret = 3 /\ indexarray_capacity(IA) = 6)
    /\ (scenario = 5) => indexarray_is_empty_slot(IA, 1)
    /\ (scenario = 6) => (last.ret = 1 /\ indexarray_capacity(IA) = 6)

\* C4 (amended): from new(3, 8), three adds return 0, 1, 2 with capacity 3,
\* a fourth add grows the capacity to 6, returns 3 and leaves the hint at 4,
\* remove_at(1) leaves slot 1 empty, and the next add returns 4, the first
\* empty slot from the hint on, with capacity still 6 and slot 1 still empty.
C4_ScenarioTakesSlot4 ==
    /\ (scenario \in 1 .. 3) =>
          (last.ret = scenario - 1 /\ indexarray_capacity(IA) = 3)
    /\ (scenario = 4) =>
          (last.ret = 3 /\ indexarray_capacity(IA) = 6 /\ next_slot = 4)
    /\ (scenario = 5) => indexarray_is_empty_slot(IA, 1)
    /\ (scenario = 6) =>
          /\ last.ret = 4
          /\ indexarray_capacity(IA) = 6
          /\ indexarray_is_empty_slot(IA, 1)

\* C4 witness: the scenario has run to its last add.
C4_Witness == scenario = 6 /\ stride = TestStride /\ last.prev.index = 1

\* the step is a mutating call (add, remove_at or clear); last' records it
Mutated == fuel' # fuel

\* C5 (as stated): in every step of add, remove_at, clear, get_at,
\* is_empty_slot and the iterator calls the capacity does not decrease, and
\* it increases exactly when the step is an add made with every slot occupied.
C5_GrowsOnEveryFullAdd ==
    [][/\ indexarray_capacity(IA') >= indexarray_capacity(IA)
       /\ (indexarray_capacity(IA') > indexarray_capacity(IA)) <=>
             (Mutated /\ last'.op = "add" /\ Full(IA))]_vars

\* C5 (amended): in every step of add, remove_at, clear, get_at,
\* is_empty_slot and the iterator calls the capacity does not decrease, and
\* it increases exactly when the step is an add made with every slot
\* occupied whose allocation of the grown buffer succeeds.
C5_MonotonicCapacity ==
    [][/\ indexarray_capacity(IA') >= indexarray_capacity(IA)
       /\ (indexarray_capacity(IA') > indexarray_capacity(IA)) <=>
             (Mutated /\ last'.op = "add" /\ Full(IA) /\ last'.alloc = "ok")]_vars

\* C5 witness: the capacity has grown while an iterator was live, and a read
\* was made after.
C5_Witness ==
    /\ Grew /\ it.live
    /\ indexarray_capacity(IA) > last.capacity0
    /\ read.op = "get_at"

\* C6 (as stated): an add made on a container of capacity c with every slot
\* occupied, whose allocation succeeds, makes the capacity 2c (8 when c = 0),
\* stores the value at index c, returns c and leaves the hint at c + 1.
C6_GrowthResult ==
    (last.op = "add" /\ last.full0 /\ last.alloc = "ok") =>
        /\ indexarray_capacity(IA) =
              (IF last.capacity0 = 0 THEN MinGrowCapacity ELSE 2 * last.capacity0)
        /\ last.ret = last.capacity0
        /\ Slot(IA, last.capacity0) = last.value
        /\ next_slot = last.capacity0 + 1

\* C7 (as stated): on a container on which no remove_at or clear was ever
\* called, the k-th add returns handle k - 1.  (Stated for adds of non-zero
\* records that return a handle: nadds counts those.)
C7_SequentialHandles ==
    (Added /\ nadds # NoIndex) => last.ret = nadds - 1

\* C8: after remove_at(h) returns OK, is_empty_slot(h) is true and get_at(h)
\* returns ERR; and a slot in range that is empty stays empty in every step
\* that is not an add returning its index (so slot h stays empty until a
\* later add returns h).
C8_RemoveThenRead ==
    /\ []((last.op = "remove_at" /\ last.ret = OK) =>
            /\ indexarray_is_empty_slot(IA, last.index)
            /\ indexarray_get_at(IA, last.index).ret = ERR)
    /\ [][\A h \in 0 .. indexarray_capacity(IA) - 1 :
            (/\ indexarray_is_empty_slot(IA, h)
             /\ ~(Mutated /\ last'.op = "add" /\ last'.ret = h)) =>
                (/\ indexarray_is_empty_slot(IA', h)
                 /\ indexarray_get_at(IA', h).ret = ERR)]_vars

\* C8 witness: a removed slot that held a record is still empty after a
\* later add that returned another handle.
C8_Witness ==
    /\ Added /\ ~is_slot_empty(last.value)
    /\ last.prev.op = "remove_at" /\ last.prev.occupied0
    /\ last.ret # last.prev.index
    /\ indexarray_is_empty_slot(IA, last.prev.index)

\* the occupied indices below n in ascending order, each with the status and
\* bytes get_at gives for it
RECURSIVE OccupiedFrom(_, _, _)
OccupiedFrom(ia, i, n) ==
    IF i >= n THEN <<>>
    ELSE (IF Occupied(ia, i) THEN <<(<<i, OK, Slot(ia, i)>>)>> ELSE <<>>)
         \o OccupiedFrom(ia, i + 1, n)

IsPrefix(p, q) == Len(p) <= Len(q) /\ SubSeq(q, 1, Len(p)) = p

\* C9: an iterator created in some container state and driven by next with no
\* mutating call and no reset in between has reported, at each next that
\* returned true, the next occupied index in ascending order with the bytes
\* of its slot, and when next returns false it has reported exactly the
\* occupied indices; with no occupied slot the first next returns false.
C9_SparseIteration ==
    (it.live /\ walk.fresh /\ walk.clean) =>
        LET all == OccupiedFrom(IA, 0, indexarray_capacity(IA))
        IN  /\ IsPrefix(walk.pairs, all)
            /\ walk.done => walk.pairs = all
            /\ it.positioned => (Len(walk.pairs) > 0 /\
                    it.current = walk.pairs[Len(walk.pairs)][1])

\* C9 witness: a full iteration that skipped an empty slot between two
\* occupied ones.
C9_Witness ==
    /\ it.live /\ walk.fresh /\ walk.clean /\ walk.done
    /\ Len(walk.pairs) = 2
    /\ walk.pairs[2][1] > walk.pairs[1][1] + 1

\* a first full iteration: next called on a newly created iterator until it
\* returns false
RECURSIVE Drive(_, _)
Drive(itr, ia) ==
    LET r == sparse_iter_next(itr, ia)
    IN  IF r.ret THEN <<Reported(r.it, ia)>> \o Drive(r.it, ia) ELSE <<>>

FirstIteration(ia) == Drive(sparse_iterator_new(ia), ia)

\* C10: after reset, called at any point, driving next with no mutating call
\* in between reports the (index, value) pairs of a first full iteration, in
\* the same order, and all of them when next returns false.
C10_IteratorRestart ==
    (it.live /\ ~walk.fresh /\ walk.clean) =>
        LET first == FirstIteration(IA)
        IN  /\ IsPrefix(walk.pairs, first)
            /\ walk.done => walk.pairs = first

\* C10 witness: a full iteration made after a reset, with no mutating call
\* since the iterator was created, over more than one occupied slot.
C10_Witness ==
    /\ it.live /\ ~walk.fresh /\ walk.clean /\ walk.done
    /\ Len(walk.pairs) >= 2

\* the container is a view made by from_buffer
IsView == made.op = "from_buffer"

\* C11 (as stated): no operation on a view made by from_buffer passes the
\* caller's range to Allocator.dispose: neither dispose nor an add that
\* grows the buffer.
C11_ViewNeverReleasesRange ==
    IsView => external.state # "released"

\* the bytes of the range after its last whole record
Remainder(bytes, s) == SubSeq(bytes, (Len(bytes) \div s) * s + 1, Len(bytes))

\* C12 (as stated): from_buffer writes nothing to the range; the bucket of
\* the view stays the caller's range, so that what add, remove_at and clear
\* write is in the range and the caller sees it; the bytes of the range
\* after its last whole record are never written; and the range is never
\* released, so that it is valid with its content after dispose.
C12_ViewBoundary ==
    IsView =>
        /\ last.op = "from_buffer" => bucket = made.bytes
        /\ region = External
        /\ external.state = "view"
        /\ Len(bucket) = Len(made.bytes)
        /\ Remainder(bucket, stride) = Remainder(made.bytes, stride)

\* the records of bytes that are not all-zero, from record i to record
\* n - 1, each with its index and OK
RECURSIVE NonZeroRecords(_, _, _, _)
NonZeroRecords(bytes, s, i, n) ==
    IF i >= n THEN <<>>
    ELSE (IF \E k \in 1 .. s : bytes[i * s + k] # 0
          THEN <<(<<i, OK, SubSeq(bytes, i * s + 1, (i + 1) * s)>>)>>
          ELSE <<>>)
         \o NonZeroRecords(bytes, s, i + 1, n)

\* C13: while no mutating call was made on a view made by from_buffer over
\* a range of L bytes with stride s, its capacity is L div s, slot i is
\* occupied iff record i of the range is not all-zero, get_at(i) gives the
\* bytes of record i for the occupied slots, and an iterator created then
\* reports the indices of the non-zero records in ascending order with
\* their bytes, all of them when next returns false.
C13_ViewInitialOccupancy ==
    (IsView /\ last.op = "from_buffer") =>
        LET n == Len(made.bytes) \div made.stride
            given == NonZeroRecords(made.bytes, made.stride, 0, n)
        IN  /\ indexarray_capacity(IA) = n
            /\ stride = made.stride
            /\ \A i \in 0 .. n - 1 :
                  LET record == SubSeq(made.bytes, i * stride + 1, (i + 1) * stride)
                  IN  IF \E k \in 1 .. stride : record[k] # 0
                      THEN ~indexarray_is_empty_slot(IA, i) /\ GetOK(i, record)
                      ELSE indexarray_is_empty_slot(IA, i)
            /\ (it.live /\ walk.fresh /\ walk.clean) =>
                  /\ IsPrefix(walk.pairs, given)
                  /\ walk.done => walk.pairs = given

\* C13 witness: a full iteration of a view over a range with non-zero
\* records at 0 and 2, a zero record at 1 and a last part shorter than a
\* record.
C13_Witness ==
    /\ IsView /\ last.op = "from_buffer"
    /\ it.live /\ walk.fresh /\ walk.clean /\ walk.done
    /\ Len(walk.pairs) = 2
    /\ walk.pairs[1][1] = 0 /\ walk.pairs[2][1] = 2
    /\ Len(made.bytes) % stride # 0

\* C14: while no mutating call was made on a container made by from_farray
\* from a source of capacity n with k elements that are not all-zero, its
\* capacity is n (construction did not grow it), its buffer is its own,
\* slots 0 .. k - 1 hold those k elements in ascending source order, the
\* other slots are empty, and an iterator created then reports k values,
\* the bytes of those elements.
C14_FromDenseSource ==
    (made.op = "from_farray" /\ last.op = "from_farray") =>
        LET n == Len(made.bytes) \div made.stride
            elems == NonZeroRecords(made.bytes, made.stride, 0, n)
            k == Len(elems)
            copied == [i \in 1 .. k |-> <<i - 1, OK, elems[i][3]>>]
        IN  /\ indexarray_capacity(IA) = n
            /\ stride = made.stride
            /\ owns_buffer /\ region = Heap
            /\ \A i \in 0 .. n - 1 :
                  IF i < k THEN GetOK(i, elems[i + 1][3])
                  ELSE indexarray_is_empty_slot(IA, i)
            /\ (it.live /\ walk.fresh /\ walk.clean) =>
                  /\ IsPrefix(walk.pairs, copied)
                  /\ walk.done => walk.pairs = copied

\* C14 witness: a full iteration of a container made from a source whose
\* elements 0 and 2 are not all-zero and whose element 1 is: the element
\* at source index 2 is at index 1.
C14_Witness ==
    /\ made.op = "from_farray" /\ last.op = "from_farray"
    /\ Len(made.bytes) = 3 * stride
    /\ ~is_slot_empty(SlotBytes(made.bytes, stride, 0))
    /\ is_slot_empty(SlotBytes(made.bytes, stride, 1))
    /\ ~is_slot_empty(SlotBytes(made.bytes, stride, 2))
    /\ it.live /\ walk.fresh /\ walk.clean /\ walk.done
    /\ Len(walk.pairs) = 2
    /\ walk.pairs[2] = <<1, OK, SlotBytes(made.bytes, stride, 2)>>

\* C15: while no mutating call was made on a container made by
\* new(capacity, stride) with stride > 0, its capacity and stride are the
\* ones given, the hint is 0 and every slot is empty; new with stride 0
\* returns NULL.
C15_InitialState ==
    /\ \A capacity \in 0 .. MaxInitCap : indexarray_new(capacity, 0) = NULL
    /\ (made.op = "new" /\ last.op = "new") =>
          /\ IA # NULL
          /\ indexarray_capacity(IA) = made.capacity
          /\ stride = made.stride
          /\ next_slot = 0
          /\ \A i \in 0 .. made.capacity - 1 :
                indexarray_is_empty_slot(IA, i) /\ is_slot_empty(Slot(IA, i))

\* C15 witness: a container just made with more than one slot of more than
\* one byte.
C15_Witness ==
    /\ made.op = "new" /\ last.op = "new"
    /\ made.capacity > 1 /\ made.stride > 1
    /\ Len(bucket) = made.capacity * made.stride

\* C16 (as stated): after clear every slot is empty, the hint is 0 and the
\* capacity and the stride are unchanged; and the next add (its allocation,
\* if it makes one, succeeding) returns handle 0.
C16_ClearThenAdd ==
    /\ [](last.op = "clear" =>
            /\ \A i \in 0 .. indexarray_capacity(IA) - 1 :
                  indexarray_is_empty_slot(IA, i)
            /\ next_slot = 0
            /\ indexarray_capacity(IA) = last.capacity0
            /\ stride = made.stride)
    /\ [][(Mutated /\ last.op = "clear" /\ last'.op = "add"
                   /\ last'.alloc # "null") => last'.ret = 0]_vars

\* C17: a get_at(h) step returns ERR and writes nothing to out when
\* h >= capacity or slot h is all-zero, returns OK with out the bytes of
\* slot h otherwise, and leaves the container unchanged.
C17_GetAt ==
    [][(~Mutated /\ read' # read /\ read'.op = "get_at") =>
          LET h == read'.index
              fails == IF h >= indexarray_capacity(IA) THEN TRUE
                       ELSE \A k \in 1 .. stride : bucket[h * stride + k] = 0
          IN  /\ IF fails
                 THEN read'.ret = ERR /\ read'.out = NoBytes
                 ELSE /\ read'.ret = OK
                      /\ read'.out = SubSeq(bucket, h * stride + 1, (h + 1) * stride)
              /\ IA' = IA]_vars

\* C17 witness: get_at has failed on a slot in range that a remove_at had
\* just emptied.
C17_Witness ==
    /\ read.op = "get_at" /\ read.ret = ERR
    /\ read.index < indexarray_capacity(IA)
    /\ last.op = "remove_at" /\ last.index = read.index /\ last.occupied0

\* C18: for every index h, is_empty_slot(h) is true exactly when
\* h >= capacity or the bytes of slot h are all zero, and it is false
\* exactly when get_at(h) returns OK.
C18_EmptyIffUnreadable ==
    \A h \in 0 .. indexarray_capacity(IA) + 1 :
        /\ indexarray_is_empty_slot(IA, h) <=>
              (IF h >= indexarray_capacity(IA) THEN TRUE
               ELSE \A k \in 1 .. stride : bucket[h * stride + k] = 0)
        /\ ~indexarray_is_empty_slot(IA, h) <=> indexarray_get_at(IA, h).ret = OK

\* C18 witness: after a growth, a container with an occupied slot and an
\* empty one.
C18_Witness ==
    /\ Grew /\ last.capacity0 > 0
    /\ \E h \in 0 .. indexarray_capacity(IA) - 1 : indexarray_is_empty_slot(IA, h)
    /\ \E h \in 0 .. indexarray_capacity(IA) - 1 : ~indexarray_is_empty_slot(IA, h)

\* C19: remove_at(h) with h < capacity returns OK whether slot h is occupied
\* or not, and a remove_at(h) made right after a remove_at(h) leaves the
\* container as the first one left it.
C19_RemoveIdempotent ==
    /\ []((last.op = "remove_at" /\ last.index < last.capacity0) => last.ret = OK)
    /\ [][(Mutated /\ last.op = "remove_at" /\ last.ret = OK
                   /\ last'.op = "remove_at" /\ last'.index = last.index) =>
             (last'.ret = OK /\ IA' = IA)]_vars

\* C19 witness: remove_at of a slot that the call before, a remove_at of
\* the same occupied slot, had emptied.
C19_Witness ==
    /\ last.op = "remove_at" /\ last.ret = OK /\ ~last.occupied0
    /\ last.prev.op = "remove_at" /\ last.prev.index = last.index
    /\ last.prev.occupied0

\* C20: a remove_at(h) step leaves the hint, the capacity, the stride, the
\* ownership and every slot other than h unchanged, and zeroes slot h; with
\* h >= capacity it returns ERR and changes nothing.
C20_RemoveFrame ==
    [][(Mutated /\ last'.op = "remove_at") =>
          LET h == last'.index
              capacity == indexarray_capacity(IA)
          IN  /\ next_slot' = next_slot
              /\ stride' = stride
              /\ Len(bucket') = Len(bucket)
              /\ owns_buffer' = owns_buffer /\ region' = region
              /\ \A k \in 1 .. Len(bucket) :
                    (k <= h * stride \/ k > (h + 1) * stride) => bucket'[k] = bucket[k]
              /\ IF h >= capacity
                 THEN last'.ret = ERR /\ bucket' = bucket
                 ELSE /\ last'.ret = OK
                      /\ \A k \in 1 .. stride : bucket'[h * stride + k] = 0]_vars

\* C20 witness: an occupied slot was removed while another slot was
\* occupied and the hint was elsewhere.
C20_Witness ==
    /\ last.op = "remove_at" /\ last.ret = OK /\ last.occupied0
    /\ next_slot # last.index /\ next_slot # 0
    /\ \E i \in 0 .. indexarray_capacity(IA) - 1 : Occupied(IA, i)

\* C21: add returns ERR when the container or the value is absent and when
\* every slot is occupied and the allocation of the grown buffer fails; and
\* an add that returns ERR leaves the capacity, the hint, every byte of the
\* buffer and its ownership unchanged, releases nothing, and leaves every
\* handle issued before retrievable.
C21_FailedAdd ==
    /\ [](/\ \A value \in Records(stride) \cup {NullValue} :
                \A new_buffer \in Alloc(stride, stride) :
                    indexarray_add(NULL, value, new_buffer) =
                        [ret |-> ERR, ia |-> NULL, released |-> "none"]
          /\ (last.op = "add" /\ (last.value = NullValue
                                   \/ (last.full0 /\ last.alloc = "null")))
                => last.ret = ERR
          /\ (last.op = "add" /\ last.ret = ERR) =>
                \A h \in DOMAIN issued :
                    ~is_slot_empty(issued[h]) => GetOK(h, issued[h]))
    /\ [][(Mutated /\ last'.op = "add" /\ last'.ret = ERR) =>
             (IA' = IA /\ external' = external)]_vars

\* C21 witness: an add has failed for want of memory on a container that
\* had grown before and holds issued handles.
C21_Witness ==
    /\ last.op = "add" /\ last.ret = ERR /\ last.alloc = "null"
    /\ last.value # NullValue
    /\ last.capacity0 > made.capacity
    /\ \E h \in DOMAIN issued : ~is_slot_empty(issued[h])

\* the arguments of the from_buffer call are refused
Refused ==
    \/ made.buffer = NullPtr
    \/ made.end = NullPtr
    \/ made.stride = 0
    \/ made.buffer >= made.end

\* C22: from_buffer(buffer, end, stride) returns NULL when buffer or end is
\* NULL, stride is 0 or buffer >= end, and, when both allocations succeed,
\* in no other case; what it returns otherwise is a non-owning view of the
\* bytes buffer .. end - 1 with hint 0 and capacity (end - buffer) \div stride,
\* which is 0 when the range is shorter than one stride.
C22_FromBuffer ==
    last.op = "from_buffer" =>
        /\ Refused => IA = NULL
        /\ (IA = NULL /\ last.alloc = "ok") => Refused
        /\ IA # NULL =>
              /\ ~Refused
              /\ ~owns_buffer
              /\ region = External
              /\ stride = made.stride
              /\ next_slot = 0
              /\ bucket = RangeBytes(made.bytes, made.buffer, made.end)
              /\ indexarray_capacity(IA) = (made.end - made.buffer) \div made.stride
              /\ (made.end - made.buffer < made.stride) => indexarray_capacity(IA) = 0

\* C22 witness: from_buffer has returned a view over a range shorter than
\* one stride that does not begin at the first byte of the memory.
C22_Witness ==
    /\ last.op = "from_buffer"
    /\ IA # NULL
    /\ made.buffer > 1
    /\ made.end - made.buffer < made.stride
    /\ indexarray_capacity(IA) = 0

\* the occupied slots after the iterator's slot, below its capacity
OccupiedAhead ==
    {j \in it.current + 1 .. it.capacity - 1 :
        j < indexarray_capacity(IA) /\ Occupied(IA, j)}

\* C23 (as stated): current_value advances the iterator after it has
\* retrieved the value, so that a current_value called right after a
\* current_value that returned OK, with no next in between, gives the value
\* of the occupied slot that follows.
C23_CurrentValueAdvances ==
    (it.live /\ read.op = "current_value" /\ read.ret = OK /\ OccupiedAhead # {}) =>
        LET j == CHOOSE k \in OccupiedAhead : \A m \in OccupiedAhead : k <= m
            second == sparse_iter_current_value(it, IA)
        IN  second.ret = OK /\ second.out = Slot(IA, j)

\* C24: the iterator is not positioned before the first next, after reset
\* and after a next that returned false, and a current_value step made then
\* returns ERR; made on a positioned iterator it returns what get_at returns
\* at current_index, so ERR when that slot was emptied after next had
\* returned true; it changes neither the iterator nor the container.
C24_CurrentValue ==
    /\ []((it.live /\ (~walk.started \/ walk.done)) =>
             /\ ~it.positioned
             /\ sparse_iter_current_value(it, IA).ret = ERR)
    /\ [][(~Mutated /\ read' # read /\ read'.op = "current_value") =>
             /\ IF it.positioned
                THEN LET r == indexarray_get_at(IA, sparse_iter_current_index(it))
                     IN  read'.ret = r.ret /\ read'.out = r.out
                ELSE read'.ret = ERR /\ read'.out = NoBytes
             /\ it' = it
             /\ IA' = IA]_vars

\* C24 witness: current_value has failed on a positioned iterator whose slot
\* a remove_at had emptied.
C24_Witness ==
    /\ read.op = "current_value" /\ read.ret = ERR
    /\ it.positioned
    /\ last.op = "remove_at" /\ last.index = it.current /\ last.occupied0

\* C25: an iterator created when the capacity was c is never positioned at
\* an index >= c, and no next step that returns true leaves it at one,
\* whatever adds, growth and resets were made since: the slots at indices
\* >= c are never visited.
C25_CapacitySnapshot ==
    /\ []((it.live /\ it.positioned) => it.current < walk.snapshot)
    /\ [][(it.live /\ it' # it /\ it'.positioned) =>
             (it'.current < walk.snapshot /\ walk'.snapshot = walk.snapshot)]_vars

\* C25 witness: the container has grown since the iterator was created and
\* holds a record at an index past the snapshot; the iterator, reset since,
\* has visited a slot and then come to its end.
C25_Witness ==
    /\ it.live /\ ~walk.fresh /\ walk.done
    /\ it.current > 0
    /\ indexarray_capacity(IA) > walk.snapshot
    /\ \E j \in walk.snapshot .. indexarray_capacity(IA) - 1 : Occupied(IA, j)
    /\ \E j \in 0 .. walk.snapshot - 1 : Occupied(IA, j)

\* C26: a new iterator is not positioned; and from the next that returned
\* false until reset, whatever adds, removes and growth are made on the
\* container, the iterator stays unpositioned and next returns false.
C26_StickyExhaustion ==
    /\ []((it.live /\ ~walk.started) => ~it.positioned)
    /\ []((it.live /\ walk.done) =>
             /\ ~it.positioned
             /\ ~sparse_iter_next(it, IA).ret)
    /\ [][(it.live /\ walk.done /\ walk'.started) =>
             (walk'.done /\ ~it'.positioned)]_vars

\* C26 witness: after a next that returned false a record was added to a
\* slot below the iterator's capacity snapshot, and the next called after
\* that add has returned false.
C26_Witness ==
    /\ it.live /\ walk.done /\ walk.late = "retried"
    /\ last.op = "add" /\ last.ret # ERR
    /\ last.ret < walk.snapshot
    /\ Occupied(IA, last.ret)

\* how far slot x is from the hint in circular order
Distance(x) ==
    LET capacity == indexarray_capacity(IA)
    IN  (x + capacity - (next_slot % capacity)) % capacity

\* C29: an add step made with a value and at least one empty slot writes
\* the value into the empty slot nearest to hint mod capacity in circular
\* order, returns its index f, sets the hint to (f + 1) mod capacity and
\* leaves the capacity, the bytes of every other slot and the buffer's
\* ownership unchanged, whatever the hint was.
C29_TargetSelection ==
    [][(Mutated /\ last'.op = "add" /\ last'.value # NullValue /\ ~Full(IA)) =>
          LET capacity == indexarray_capacity(IA)
              empty == {x \in 0 .. capacity - 1 :
                           \A k \in 1 .. stride : bucket[x * stride + k] = 0}
              f == CHOOSE x \in empty : \A y \in empty : Distance(x) <= Distance(y)
          IN  /\ last'.ret = f
              /\ next_slot' = (f + 1) % capacity
              /\ Len(bucket') = Len(bucket)
              /\ \A k \in 1 .. Len(bucket) :
                    bucket'[k] = IF (k - 1) \div stride = f
                                 THEN last'.value[k - f * stride]
                                 ELSE bucket[k]
              /\ stride' = stride /\ owns_buffer' = owns_buffer /\ region' = region
              /\ external' = external]_vars

\* C29 witness: an add has found its slot after wrapping: the hint was at
\* an occupied slot and every slot from the hint to the end was occupied.
C29_Witness ==
    /\ last.op = "add" /\ last.ret # ERR /\ ~last.full0
    /\ last.capacity0 > 1
    /\ last.ret < last.next_slot0 % last.capacity0
    /\ ~is_slot_empty(last.value)

\* the slot an add step has returned was empty, or past the end of the
\* buffer, before the step
TookFreeSlot ==
    \/ last'.ret >= indexarray_capacity(IA)
    \/ \A k \in 1 .. stride : bucket[last'.ret * stride + k] = 0

\* C30 (as stated): an add step that returns a handle returns a slot that
\* was empty or did not exist before the step, and the handle is none of
\* those returned before and not removed or cleared since.
C30_LiveHandlesDistinct ==
    [][(Mutated /\ last'.op = "add" /\ last'.ret # ERR) =>
          (TookFreeSlot /\ last'.ret \notin DOMAIN issued)]_vars

\* C30 (amended): an add step that returns a handle returns a slot that was
\* empty or did not exist before the step, and the handle is none of those
\* returned before for a record that is not all-zero and not removed or
\* cleared since; the bytes of those records are not changed by the step.
C30_NoOverwrite ==
    [][(Mutated /\ last'.op = "add" /\ last'.ret # ERR) =>
          /\ TookFreeSlot
          /\ \A h \in DOMAIN issued :
                ~is_slot_empty(issued[h]) =>
                    /\ h # last'.ret
                    /\ SubSeq(bucket', h * stride + 1, (h + 1) * stride) = issued[h]]_vars

\* C30 witness: an add of a record that is not all-zero has taken the slot
\* a remove_at had just emptied, while another handle given for a record
\* that is not all-zero is live.
C30_Witness ==
    /\ last.op = "add" /\ last.ret # ERR /\ ~is_slot_empty(last.value)
    /\ last.prev.op = "remove_at" /\ last.prev.occupied0
    /\ last.prev.index = last.ret
    /\ \E h \in DOMAIN issued : h # last.ret /\ ~is_slot_empty(issued[h])

\* the elements of the collection, as iter_current gives them
Elements(c) ==
    [k \in 1 .. c.length |->
        [index |-> k - 1, bytes |-> SlotBytes(c.bucket, c.stride, k - 1)]]

\* C27: while no call on the collection was made since the iterator was
\* created, with n the length: next returns true exactly while fewer than n
\* nexts have returned true since the creation or the reset; the k-th of
\* them leaves iter_current at element k - 1; iter_current gives nothing
\* before the first next and after reset; and an iteration run to its end
\* after a reset gives the n elements the one before the reset gave, in the
\* same order.
C27_DenseIteration ==
    (dense.live /\ tally.clean) =>
        /\ Len(tally.seen) <= coll.length
        /\ \A k \in 1 .. Len(tally.seen) : tally.seen[k] = Elements(coll)[k]
        /\ iter_next(dense, coll).ret <=> Len(tally.seen) < coll.length
        /\ tally.done => tally.seen = Elements(coll)
        /\ ~tally.started => iter_current(dense, coll) = NoElement
        /\ tally.current # NoElement =>
              (tally.seen # <<>> /\ tally.current = tally.seen[Len(tally.seen)])
        /\ (tally.done /\ tally.prior.done) => tally.seen = tally.prior.seen

\* C27 witness: a collection of two different elements was iterated to the
\* end, the iterator was reset, and it was iterated to the end again.
C27_Witness ==
    /\ dense.live /\ tally.clean
    /\ tally.resets > 0 /\ tally.prior.done /\ tally.done
    /\ Len(tally.seen) > 1
    /\ tally.seen[1].bytes # tally.seen[Len(tally.seen)].bytes

\* C28: the length of a collection made by collection_new is at most its
\* capacity, collection_count is the number of adds that returned OK minus
\* the number of removes that returned OK since collection_new or the last
\* clear, and a clear step sets the length to 0 and keeps the capacity.
C28_LengthBound ==
    /\ [](/\ coll.length <= Len(coll.bucket) \div coll.stride
          /\ collection_count(coll) = tally.adds - tally.removes)
    /\ [](tally.op = "clear" =>
             (coll.length = 0 /\ Len(coll.bucket) \div coll.stride = tally.capacity0))
    /\ [][(tally'.fuel # tally.fuel /\ tally'.op = "clear") =>
             /\ coll'.length = 0
             /\ Len(coll'.bucket) = Len(coll.bucket)
             /\ coll'.stride = coll.stride]_vars

\* C28 witness: a remove has returned OK on a collection that had grown,
\* and has left elements in it.
C28_Witness ==
    /\ tally.op = "remove" /\ tally.ret = OK
    /\ tally.removes > 0
    /\ coll.length > 0
    /\ Len(coll.bucket) \div coll.stride > tally.initial

\* C31 (as stated): right after an add that grew the buffer from capacity c,
\* for every c >= 0 and whatever bytes the allocator returned, every slot of
\* the enlarged buffer is empty except the c slots that were occupied before
\* and the slot whose index add returned.
C31_NoPhantomAfterGrowth ==
    Grew =>
        \A i \in 0 .. indexarray_capacity(IA) - 1 :
            ~indexarray_is_empty_slot(IA, i) => (i < last.capacity0 \/ i = last.ret)

\* C32 (as stated): no buffer the container allocated, by new or by a
\* growth, is passed to Allocator.dispose twice; the buffer the bucket points
\* to is not a released one while the container is in use; and when dispose
\* has returned every buffer the container allocated was released once.
C32_ResourceBalance ==
    /\ \A k \in DOMAIN heap : heap[k] <= 1
    /\ (~disposed /\ region = Heap) => heap[Len(heap)] = 0
    /\ disposed => \A k \in DOMAIN heap : heap[k] = 1

\* C33: whatever add, remove_at and clear calls are made between the next
\* calls, a next that returns true since the iterator was created or last
\* reset leaves it at an index greater than the one before left it at, at a
\* slot that is occupied then; so the nexts that returned true since are at
\* most the capacity snapshot, and once they are that many next returns
\* false.
C33_IteratorProgress ==
    /\ [](it.live =>
            /\ walk.hits <= walk.snapshot
            /\ walk.hits > 0 => (walk.hits - 1 <= walk.lastidx
                                  /\ walk.lastidx < walk.snapshot)
            /\ LET r == sparse_iter_next(it, IA)
               IN  IF r.ret
                   THEN /\ sparse_iter_current_index(r.it) > walk.lastidx
                        /\ Occupied(IA, sparse_iter_current_index(r.it))
                   ELSE ~r.it.positioned
            /\ walk.hits = walk.snapshot => ~sparse_iter_next(it, IA).ret)
    /\ [][(it.live /\ walk'.hits = walk.hits + 1) =>
             /\ walk'.lastidx > walk.lastidx
             /\ it'.current = walk'.lastidx
             /\ Occupied(IA', walk'.lastidx)]_vars

\* C33 witness: an iteration of two visits or more has come to its end with
\* mutating calls made during the iterator's life, and the slots occupied
\* now are not the ones it visited.
C33_Witness ==
    /\ it.live /\ ~walk.clean /\ walk.done
    /\ walk.hits > 1
    /\ walk.hits # Cardinality({i \in 0 .. walk.snapshot - 1 : Occupied(IA, i)})


\* the bytes collection_add stores for ptr: the object's bytes under the tag
\* 'F', the bytes of the pointer itself otherwise
Stored(c, ptr) ==
    IF c.handle = "F" THEN ptr.bytes ELSE PointerBytes(ptr.addr, c.stride)

\* the indices of the elements whose stride bytes equal the bytes at ptr
Matches(c, ptr) ==
    {i \in 0 .. c.length - 1 : SlotBytes(c.bucket, c.stride, i) = ptr.bytes}

C35_RoundTrip ==
    (tally.op = "add" /\ tally.ret = OK) =>
        LET r == collection_remove(coll, tally.arg)
        IN  /\ r.ret = OK
            /\ collection_count(r.coll) = collection_count(coll) - 1


\* the capacity of the collection's buffer in slots
Capacity(c) == Len(c.bucket) \div c.stride

\* C36: an add on a collection whose length equals its capacity c, when it
\* returns OK, leaves a buffer of 2c slots (of MinGrowCapacity slots when
\* c = 0) of the same stride, with the elements 0 .. c - 1 as they were,
\* the new element at index c and the count c + 1; when it returns failure
\* (the growth allocation failed) the length, the capacity and the contents
\* are as they were.
C36_GrowOnDemand ==
    [][(/\ tally'.fuel # tally.fuel /\ tally'.op = "add"
        /\ coll.length = Capacity(coll)) =>
          LET c == Capacity(coll)
          IN  IF tally'.ret = OK
              THEN /\ Capacity(coll') = IF c = 0 THEN MinGrowCapacity ELSE 2 * c
                   /\ coll'.stride = coll.stride
                   /\ \A k \in 0 .. c - 1 :
                          SlotBytes(coll'.bucket, coll.stride, k)
                              = SlotBytes(coll.bucket, coll.stride, k)
                   /\ SlotBytes(coll'.bucket, coll.stride, c)
                          = Stored(coll, tally'.arg)
                   /\ collection_count(coll') = c + 1
              ELSE /\ coll'.length = coll.length
                   /\ Capacity(coll') = c
                   /\ coll'.bucket = coll.bucket
                   /\ coll'.stride = coll.stride]_vars

\* C36 witness: an add has returned OK on a full collection of two different
\* elements, which now has four slots and three elements.
C36_Witness ==
    /\ tally.op = "add" /\ tally.ret = OK
    /\ tally.capacity0 = 2 /\ tally.length0 = 2
    /\ Capacity(coll) = 4 /\ coll.length = 3
    /\ SlotBytes(coll.bucket, coll.stride, 0) # SlotBytes(coll.bucket, coll.stride, 1)


\* C37: in every state of a container made by new, after any adds (with or
\* without growth), remove_ats and clears, the stride reported is greater
\* than 0 and is the stride given to new, and the capacity is the extent of
\* the buffer divided by that stride.
C37_StrideConstant ==
    /\ indexarray_stride(IA) > 0
    /\ indexarray_stride(IA) = made.stride
    /\ indexarray_capacity(IA) = Len(bucket) \div made.stride

\* C37 witness: a container of the greatest stride has grown twice.
C37_Witness ==
    /\ Grew
    /\ made.stride = MaxStride
    /\ made.capacity > 0
    /\ last.capacity0 = 2 * made.capacity
    /\ indexarray_capacity(IA) = 4 * made.capacity


\* C38 (as stated): in every state with capacity > 0 the hint is less than
\* the capacity.
C38_HintInRange ==
    indexarray_capacity(IA) > 0 => next_slot < indexarray_capacity(IA)

\* C38 (amended): in every state with capacity > 0 the hint is at most the
\* capacity, and equals it only in a buffer of two slots; it is less than
\* the capacity right after an add that took an empty slot and right after
\* a growth from any capacity but 1, it equals the new capacity right after
\* a growth from capacity 1, and it is 0 right after clear.
C38_HintBound ==
    LET capacity == indexarray_capacity(IA)
    IN  /\ capacity > 0 => next_slot <= capacity
        /\ (capacity > 0 /\ next_slot = capacity) => capacity = 2
        /\ (Added /\ ~last.full0) => next_slot < capacity
        /\ (Grew /\ last.capacity0 # 1) => next_slot < capacity
        /\ (Grew /\ last.capacity0 = 1) => next_slot = capacity
        /\ last.op = "clear" => next_slot = 0

\* C38 witness: a container made with capacity 1 has grown to two slots,
\* and the hint the growth left equal to the capacity is still there after
\* a remove_at.
C38_Witness ==
    /\ made.capacity = 1
    /\ last.op = "remove_at" /\ last.ret = OK
    /\ last.next_slot0 = last.capacity0
    /\ indexarray_capacity(IA) = 2
    /\ next_slot = indexarray_capacity(IA)

====
